---- MODULE Spec2Model ----
(***************************************************************************)
(* Verification model of the wireless-course simulators:                   *)
(*   - PropagationSimulator  (handoff state machine, path loss)            *)
(*   - TrunkingSimulator     (channel occupancy, M/M/C/C tick)             *)
(*   - SignalRecoverySimulator (five-stage DSP pipeline)                   *)
(* Reals are carried in fixed point: signal levels in centi-dB, positions  *)
(* in units of 25/18 m (the distance covered in one tick at 5 km/h), rates *)
(* in tenths, probabilities, samples and tap amplitudes in thousandths.    *)
(***************************************************************************)
EXTENDS Integers, Sequences, FiniteSets, TLC

(***************************************************************************)
(* Bounds of the model                                                     *)
(***************************************************************************)
\* handoff events recorded before the timer is no longer followed
MaxEvents == 2
\* button presses and slider moves made by the user in one behaviour
MaxUserActions == 1

\* ueSpeed slider: min 5, max 150, step 5 (km/h); values explored
Speeds == {100, 150}
\* the speed at which the explored runs start
StartSpeeds == {150}
\* thresholdMargin slider 0..20 dB; values explored
ThresholdMargins == {0, 5, 10}
\* hysteresisMargin slider 0..20 dB; values explored
HysteresisMargins == {1, 2, 6}
\* outcomes of Math.random() * 1.5 - 0.75, in centi-dB, within [-75, 75)
Jitter == {-75, 0, 74}

(***************************************************************************)
(* PropagationSimulator: constants and the signal model                    *)
(***************************************************************************)
\* P_TX = 30 dBm and P_MIN = -90 dBm, in centi-dB
P_TX == 3000
P_MIN == -9000

\* TOTAL_DIST = 1000 m (urban) or 10000 m (highway), in units of 25/18 m
TOTAL_DIST(env) == IF env = "urban" THEN 720 ELSE 7200

gamma(env) == IF env = "urban" THEN 4 ELSE 3

RECURSIVE Pow2(_)
Pow2(n) == IF n = 0 THEN 1 ELSE 2 * Pow2(n - 1)

RECURSIVE FloorLog2(_)
FloorLog2(n) == IF n < 2 THEN 0 ELSE 1 + FloorLog2(n \div 2)

\* fractional bits of log2 of y (y in Q14, 1 <= y < 2) by repeated squaring
RECURSIVE Log2Frac(_, _, _)
Log2Frac(y, k, acc) ==
  IF k = 0 THEN acc
  ELSE LET y2 == (y * y) \div 16384
       IN IF y2 >= 32768 THEN Log2Frac(y2 \div 2, k - 1, 2 * acc + 1)
          ELSE Log2Frac(y2, k - 1, 2 * acc)

\* Math.log10(n) for an integer n >= 1, scaled by 10^5
Log10E5(n) ==
  LET e == FloorLog2(n)
      y == IF e <= 14 THEN n * Pow2(14 - e) ELSE n \div Pow2(e - 14)
      frac == Log2Frac(y, 12, 0)
  IN e * 30103 + (frac * 30103) \div 4096

\* calculateSignal(d, env, noiseScale) with the jitter drawn by the caller;
\* d in units of 25/18 m, so log10(meters) = log10(25 d) - log10(18)
calculateSignal(d, env, jit) ==
  LET logDist == IF d < 1 THEN 0 ELSE Log10E5(25 * d) - Log10E5(18)
      baseSignal == P_TX - (gamma(env) * logDist + 50) \div 100
  IN baseSignal + jit

\* a function on 1..n held as the tuple of its values
AsTuple(f) == f \o <<>>

\* calculateSignal without jitter: BaseSignal[env][d + 1] at grid distance d
BaseSignal ==
  [urban |-> AsTuple([i \in 1..(TOTAL_DIST("urban") + 1) |->
                        calculateSignal(i - 1, "urban", 0)]),
   highway |-> AsTuple([i \in 1..(TOTAL_DIST("highway") + 1) |->
                          calculateSignal(i - 1, "highway", 0)])]

VARIABLES
  ueSpeed, handoffMode, thresholdMargin, hysteresisMargin, environment,
  uePosition, isMoving, activeBS, handoffEvents, isPingPonging,
  handoffInLastTick,
  \* handoffInLastTick as captured by the interval callback of the last effect run
  capturedHandoffInLastTick,
  \* history: whether the most recent interval callback produced a handoff
  lastTickHandoff,
  \* history: <<mode, margin>> of the rule that made the last handoff of this
  \* run, <<>> when the run (since reset or environment switch) has none
  switchRule,
  \* button presses and slider moves made so far
  userActions

hoVars == <<ueSpeed, handoffMode, thresholdMargin, hysteresisMargin, environment,
            uePosition, isMoving, activeBS, handoffEvents, isPingPonging,
            handoffInLastTick, capturedHandoffInLastTick,
            lastTickHandoff, switchRule, userActions>>

\* dependency array of the simulation-loop effect
EffectDeps(m, sp, env, mode, tm, hm, bs) == <<m, sp, env, mode, tm, hm, bs>>

\* an effect whose callback keeps the handoffInLastTick of its first run
RecaptureNever == capturedHandoffInLastTick' = capturedHandoffInLastTick

\* the effect re-runs (and its callback re-captures handoffInLastTick) only
\* when an entry of its dependency array changed
Recapture ==
  capturedHandoffInLastTick' =
    IF EffectDeps(isMoving', ueSpeed', environment', handoffMode',
                  thresholdMargin', hysteresisMargin', activeBS')
       # EffectDeps(isMoving, ueSpeed, environment, handoffMode,
                    thresholdMargin, hysteresisMargin, activeBS)
    THEN handoffInLastTick'
    ELSE capturedHandoffInLastTick

\* the state after construction (useState initial values), with the parameters
\* as the user may have set them before starting a run, and the run started or not
HandoffInit ==
  /\ ueSpeed \in StartSpeeds
  /\ handoffMode \in {"hysteresis", "threshold"}
  /\ thresholdMargin \in IF handoffMode = "threshold" THEN ThresholdMargins ELSE {10}
  /\ hysteresisMargin \in IF handoffMode = "hysteresis" THEN HysteresisMargins ELSE {6}
  /\ environment \in {"highway", "urban"}
  /\ uePosition = 0
  /\ isMoving \in BOOLEAN
  /\ activeBS = 1
  /\ handoffEvents = <<>>
  /\ isPingPonging = FALSE
  /\ handoffInLastTick = FALSE
  /\ capturedHandoffInLastTick = FALSE
  /\ lastTickHandoff = FALSE
  /\ switchRule = <<>>
  /\ userActions = 0

\* a tick that never checks for a dropped call
CallDroppedUnchecked(currentRSSI) == FALSE

\* Call Dropped Condition
CallDropped(currentRSSI) == currentRSSI < P_MIN

\* the hysteresis rule comparing the two signals without the margin
HandoffConditionNoMargin(mode, bs, s1, s2, tm, hm) ==
  IF mode = "threshold"
  THEN IF bs = 1 THEN s1 < P_MIN + 100 * tm ELSE s2 < P_MIN + 100 * tm
  ELSE IF bs = 1 THEN s2 > s1 ELSE s1 > s2

\* the hysteresis rule applying half of the margin
HandoffConditionHalfMargin(mode, bs, s1, s2, tm, hm) ==
  IF mode = "threshold"
  THEN IF bs = 1 THEN s1 < P_MIN + 100 * tm ELSE s2 < P_MIN + 100 * tm
  ELSE IF bs = 1 THEN s2 > s1 + 50 * hm ELSE s1 > s2 + 50 * hm

\* the handoff condition of the selected mode, for the serving cell bs
HandoffCondition(mode, bs, s1, s2, tm, hm) ==
  IF mode = "threshold"
  THEN IF bs = 1 THEN s1 < P_MIN + 100 * tm ELSE s2 < P_MIN + 100 * tm
  ELSE IF bs = 1 THEN s2 > s1 + 100 * hm ELSE s1 > s2 + 100 * hm

\* a boundary branch that returns next instead of TOTAL_DIST
TickBoundaryUnclamped ==
  /\ uePosition + ueSpeed \div 5 >= TOTAL_DIST(environment)
  /\ isMoving' = FALSE
  /\ uePosition' = uePosition + ueSpeed \div 5
  /\ lastTickHandoff' = FALSE
  /\ UNCHANGED <<activeBS, handoffEvents, isPingPonging, handoffInLastTick, switchRule>>

\* a boundary branch that forgets setIsMoving(false)
TickBoundaryKeepsMoving ==
  /\ uePosition + ueSpeed \div 5 >= TOTAL_DIST(environment)
  /\ isMoving' = isMoving
  /\ uePosition' = TOTAL_DIST(environment)
  /\ lastTickHandoff' = FALSE
  /\ UNCHANGED <<activeBS, handoffEvents, isPingPonging, handoffInLastTick, switchRule>>

\* the part of the interval callback that runs when next >= TOTAL_DIST
TickBoundary ==
  /\ uePosition + ueSpeed \div 5 >= TOTAL_DIST(environment)
  /\ isMoving' = FALSE
  /\ uePosition' = TOTAL_DIST(environment)
  /\ lastTickHandoff' = FALSE
  /\ UNCHANGED <<activeBS, handoffEvents, isPingPonging, handoffInLastTick, switchRule>>

\* the interval callback when next < TOTAL_DIST and Math.random() yields the
\* jitters j1 (for s1) and j2 (for s2)
TickSample(j1, j2) ==
  LET next == uePosition + ueSpeed \div 5
      s1 == BaseSignal[environment][next + 1] + j1
      s2 == BaseSignal[environment][TOTAL_DIST(environment) - next + 1] + j2
      currentRSSI == IF activeBS = 1 THEN s1 ELSE s2
      handoffOccurredThisTick ==
        HandoffCondition(handoffMode, activeBS, s1, s2,
                         thresholdMargin, hysteresisMargin)
  IN /\ next < TOTAL_DIST(environment)
     /\ IF CallDropped(currentRSSI)
        THEN /\ isMoving' = FALSE
             /\ handoffEvents' = Append(handoffEvents, [pos |-> next, type |-> "drop"])
             /\ isPingPonging' = FALSE
             /\ uePosition' = uePosition
             /\ lastTickHandoff' = FALSE
             /\ UNCHANGED <<activeBS, handoffInLastTick, switchRule>>
        ELSE /\ IF handoffOccurredThisTick
                THEN /\ activeBS' = 3 - activeBS
                     /\ handoffEvents' =
                          Append(handoffEvents, [pos |-> next, type |-> "handoff"])
                ELSE UNCHANGED <<activeBS, handoffEvents>>
             /\ isPingPonging' =
                  IF handoffOccurredThisTick /\ capturedHandoffInLastTick THEN TRUE
                  ELSE IF ~handoffOccurredThisTick THEN FALSE
                  ELSE isPingPonging
             /\ handoffInLastTick' = handoffOccurredThisTick
             /\ uePosition' = next
             /\ lastTickHandoff' = handoffOccurredThisTick
             /\ switchRule' =
                  IF ~handoffOccurredThisTick THEN switchRule
                  ELSE IF handoffMode = "threshold" THEN <<handoffMode, thresholdMargin>>
                  ELSE <<handoffMode, hysteresisMargin>>
             /\ UNCHANGED isMoving

\* one firing of the 100 ms interval callback (the setUePosition updater)
HandoffTick ==
  /\ isMoving
  /\ Len(handoffEvents) < MaxEvents
  /\ \/ TickBoundary
     \/ \E j1 \in Jitter, j2 \in Jitter : TickSample(j1, j2)
  /\ UNCHANGED <<ueSpeed, handoffMode, thresholdMargin, hysteresisMargin,
                 environment, userActions>>
  /\ Recapture

\* every button press or slider move counts against MaxUserActions
UserAction ==
  /\ userActions < MaxUserActions
  /\ userActions' = userActions + 1

\* play / pause button
TogglePlay ==
  /\ UserAction
  /\ isMoving' = ~isMoving
  /\ UNCHANGED <<ueSpeed, handoffMode, thresholdMargin, hysteresisMargin, environment,
                 uePosition, activeBS, handoffEvents, isPingPonging, handoffInLastTick,
                 lastTickHandoff, switchRule>>
  /\ Recapture

\* reset button
HandoffReset ==
  /\ UserAction
  /\ uePosition' = 0
  /\ handoffEvents' = <<>>
  /\ activeBS' = 1
  /\ isMoving' = FALSE
  /\ switchRule' = <<>>
  /\ UNCHANGED <<ueSpeed, handoffMode, thresholdMargin, hysteresisMargin, environment,
                 isPingPonging, handoffInLastTick, lastTickHandoff>>
  /\ Recapture

\* "Threshold Margin" / "Hysteresis" algorithm buttons
SetHandoffMode ==
  /\ UserAction
  /\ \E m \in {"threshold", "hysteresis"} : handoffMode' = m
  /\ UNCHANGED <<ueSpeed, thresholdMargin, hysteresisMargin, environment,
                 uePosition, isMoving, activeBS, handoffEvents, isPingPonging,
                 handoffInLastTick, lastTickHandoff, switchRule>>
  /\ Recapture

\* UE Speed slider
SetUeSpeed ==
  /\ UserAction
  /\ \E v \in Speeds : ueSpeed' = v
  /\ UNCHANGED <<handoffMode, thresholdMargin, hysteresisMargin, environment,
                 uePosition, isMoving, activeBS, handoffEvents, isPingPonging,
                 handoffInLastTick, lastTickHandoff, switchRule>>
  /\ Recapture

\* Threshold Margin slider (rendered in threshold mode only)
SetThresholdMargin ==
  /\ UserAction
  /\ handoffMode = "threshold"
  /\ \E d \in ThresholdMargins : thresholdMargin' = d
  /\ UNCHANGED <<ueSpeed, handoffMode, hysteresisMargin, environment,
                 uePosition, isMoving, activeBS, handoffEvents, isPingPonging,
                 handoffInLastTick, lastTickHandoff, switchRule>>
  /\ Recapture

\* Hysteresis Margin slider (rendered in hysteresis mode only)
SetHysteresisMargin ==
  /\ UserAction
  /\ handoffMode = "hysteresis"
  /\ \E h \in HysteresisMargins : hysteresisMargin' = h
  /\ UNCHANGED <<ueSpeed, handoffMode, thresholdMargin, environment,
                 uePosition, isMoving, activeBS, handoffEvents, isPingPonging,
                 handoffInLastTick, lastTickHandoff, switchRule>>
  /\ Recapture

\* Urban / Highway environment buttons
SetEnvironment ==
  /\ UserAction
  /\ \E e \in {"urban", "highway"} : environment' = e
  /\ uePosition' = 0
  /\ handoffEvents' = <<>>
  /\ switchRule' = <<>>
  /\ UNCHANGED <<ueSpeed, handoffMode, thresholdMargin, hysteresisMargin,
                 isMoving, activeBS, isPingPonging, handoffInLastTick,
                 lastTickHandoff>>
  /\ Recapture

(***************************************************************************)
(* TrunkingSimulator: channel occupancy, one birth-death step per tick     *)
(* Rates are in tenths, probabilities and the outcomes                     *)
(* of Math.random() in thousandths.                                        *)
(***************************************************************************)
\* Total Channels slider: min 1, max 50; values explored
ChannelChoices == {1, 2}
\* Arrival Rate slider: min 0.1, max 20, step 0.1; values explored (tenths)
ArrivalRates == {50, 200}
\* Service Rate slider: min 0.1, max 5, step 0.1; values explored (tenths)
ServiceRates == {10, 50}
\* outcomes of Math.random(), in thousandths, within [0, 1000)
RandomDraws == {0, 500, 999}
\* calls offered before the timer is no longer followed
MaxCalls == 3

VARIABLES channels, arrivalRate, serviceRate, isPlaying, currentBusy, events, stats

trVars == <<channels, arrivalRate, serviceRate, isPlaying, currentBusy, events, stats>>

\* the state after construction, with the parameters as the user may have set them
TrunkInit ==
  /\ channels \in ChannelChoices
  /\ arrivalRate \in ArrivalRates
  /\ serviceRate \in ServiceRates
  /\ isPlaying = FALSE
  /\ currentBusy = 0
  /\ events = <<>>
  /\ stats = [totalCalls |-> 0, droppedCalls |-> 0]

\* arrivalRate * dt and currentBusy * serviceRate * dt with dt = 0.1, in thousandths
ArrivalProb(rate) == rate * 10
DepartureProb(busy, rate) == busy * rate * 10

\* [newEvent, ...prev].slice(0, 5)
LogEvent(newEvent, prev) ==
  LET all == <<newEvent>> \o prev
  IN SubSeq(all, 1, IF Len(all) < 5 THEN Len(all) ELSE 5)

\* an arrival phase that accepts the call without looking at the channel count
HandleArrivalUncapped(arrived, busy, chans, st) ==
  IF arrived
  THEN <<busy + 1, "success", st.totalCalls + 1, st.droppedCalls>>
  ELSE <<busy, "none", st.totalCalls, st.droppedCalls>>

\* an arrival phase that counts a refused call as dropped but not as offered
HandleArrivalRefusalNotOffered(arrived, busy, chans, st) ==
  IF arrived
  THEN IF busy < chans
       THEN <<busy + 1, "success", st.totalCalls + 1, st.droppedCalls>>
       ELSE <<busy, "drop", st.totalCalls, st.droppedCalls + 1>>
  ELSE <<busy, "none", st.totalCalls, st.droppedCalls>>

\* Handle Arrival: <<newBusy, newEvent, totalCalls, droppedCalls>> after the phase
HandleArrival(arrived, busy, chans, st) ==
  IF arrived
  THEN IF busy < chans
       THEN <<busy + 1, "success", st.totalCalls + 1, st.droppedCalls>>
       ELSE <<busy, "drop", st.totalCalls + 1, st.droppedCalls + 1>>
  ELSE <<busy, "none", st.totalCalls, st.droppedCalls>>

\* a departure phase that compares the draw with <= instead of <
HandleDepartureInclusive(randDeparture, departureProb, newBusy) ==
  randDeparture <= departureProb /\ newBusy > 0

\* Handle Departure: whether a call ends in this tick
HandleDeparture(randDeparture, departureProb, newBusy) ==
  randDeparture < departureProb /\ newBusy > 0

\* one firing of the 200 ms interval callback with the two Math.random() draws
TrunkTickWith(randArrival, randDeparture) ==
  LET arrivalProb == ArrivalProb(arrivalRate)
      departureProb == DepartureProb(currentBusy, serviceRate)
      a == HandleArrival(randArrival < arrivalProb, currentBusy, channels, stats)
      departs == HandleDeparture(randDeparture, departureProb, a[1])
      newBusy == IF departs THEN a[1] - 1 ELSE a[1]
      newEvent == IF a[2] # "none" THEN a[2] ELSE IF departs THEN "end" ELSE "none"
  IN /\ stats' = [totalCalls |-> a[3], droppedCalls |-> a[4]]
     /\ currentBusy' = newBusy
     /\ events' = IF newEvent # "none" THEN LogEvent([type |-> newEvent], events)
                  ELSE events

TrunkTick ==
  /\ isPlaying
  /\ stats.totalCalls < MaxCalls
  /\ \E randArrival \in RandomDraws, randDeparture \in RandomDraws :
       TrunkTickWith(randArrival, randDeparture)
  /\ UNCHANGED <<channels, arrivalRate, serviceRate, isPlaying>>

\* play / pause button
TrunkTogglePlay ==
  /\ isPlaying' = ~isPlaying
  /\ UNCHANGED <<channels, arrivalRate, serviceRate, currentBusy, events, stats>>

resetSim ==
  /\ currentBusy' = 0
  /\ events' = <<>>
  /\ stats' = [totalCalls |-> 0, droppedCalls |-> 0]
  /\ isPlaying' = FALSE
  /\ UNCHANGED <<channels, arrivalRate, serviceRate>>

\* a Total Channels slider that leaves the busy count alone
ClampBusyMissing(busy, v) == busy

\* the busy count after the Total Channels slider moved to v
ClampBusy(busy, v) == IF busy > v THEN v ELSE busy

\* Total Channels slider
SetChannels ==
  /\ \E v \in ChannelChoices :
       /\ channels' = v
       /\ currentBusy' = ClampBusy(currentBusy, v)
  /\ UNCHANGED <<arrivalRate, serviceRate, isPlaying, events, stats>>

\* Arrival Rate slider
SetArrivalRate ==
  /\ \E v \in ArrivalRates : arrivalRate' = v
  /\ UNCHANGED <<channels, serviceRate, isPlaying, currentBusy, events, stats>>

\* Service Rate slider
SetServiceRate ==
  /\ \E v \in ServiceRates : serviceRate' = v
  /\ UNCHANGED <<channels, arrivalRate, isPlaying, currentBusy, events, stats>>

(***************************************************************************)
(* SignalRecoverySimulator: the five-stage pipeline.                       *)
(* Samples, tap amplitudes, noise variance and spectra are in thousandths; *)
(* a complex number is a pair <<re, im>>; a bit string is a sequence of    *)
(* the characters "0" and "1".                                             *)
(***************************************************************************)
\* tap Delay slider: min 0, max 20, step 1; values explored
DelayChoices == {3, 12}
\* tap Amp slider: min -1, max 1, step 0.1; values explored (thousandths)
AmpChoices == {100}
\* Channel Noise slider: min 0, max 0.5, step 0.05; values explored (thousandths)
NoiseVariances == {0, 250}
\* realisations of the Box-Muller draws explored per transmission
NoiseSeeds == {1, 2}
\* slider moves followed in one behaviour
MaxSliderMoves == 2

\* cos and sin of 2 pi idx / n by their power series, in thousandths; inside the
\* series the scale is 10000, in which 2 pi = 62832, pi = 31416, pi/2 = 15708
CosSin(idx, n) ==
  LET th0 == (62832 * idx) \div n
      th1 == IF th0 > 31416 THEN 62832 - th0 ELSE th0
      th == IF th1 > 15708 THEN 31416 - th1 ELSE th1
      t == (th * th) \div 10000
      c5 == 10000 - (t * 10000) \div (90 * 10000)
      c4 == 10000 - (t * c5) \div (56 * 10000)
      c3 == 10000 - (t * c4) \div (30 * 10000)
      c2 == 10000 - (t * c3) \div (12 * 10000)
      c1 == 10000 - (t * c2) \div (2 * 10000)
      s4 == 10000 - (t * 10000) \div (72 * 10000)
      s3 == 10000 - (t * s4) \div (42 * 10000)
      s2 == 10000 - (t * s3) \div (20 * 10000)
      s1 == 10000 - (t * s2) \div (6 * 10000)
      sn == (th * s1) \div 10000
      c == IF th1 > 15708 THEN -c1 ELSE c1
      sg == IF th0 > 31416 THEN -sn ELSE sn
  IN <<(c + 5) \div 10, (sg + 5) \div 10>>

\* the twiddle factors of a transform of length n
TwiddleRow(n) == AsTuple([i \in 1..n |-> CosSin(i - 1, n)])

\* the twiddle factors of every transform length the pipeline can produce
\* (70 samples of x, impulse responses of 1 to 21 samples):
\* Twiddle[n - 69][idx + 1] is the factor idx of a transform of length n
Twiddle == AsTuple([r \in 1..21 |-> TwiddleRow(r + 69)])

\* the terms lo .. hi of one bin of the transform, summed pairwise
RECURSIVE DftSum(_, _, _, _, _)
DftSum(x, sign, k, lo, hi) ==
  IF lo = hi
  THEN LET cs == Twiddle[Len(x) - 69][((k * (lo - 1)) % Len(x)) + 1]
           xr == x[lo][1]
           xi == x[lo][2]
       IN <<xr * cs[1] - sign * xi * cs[2], sign * xr * cs[2] + xi * cs[1]>>
  ELSE LET mid == (lo + hi) \div 2
           a == DftSum(x, sign, k, lo, mid)
           b == DftSum(x, sign, k, mid + 1, hi)
       IN <<a[1] + b[1], a[2] + b[2]>>

\* math.fft (sign = -1) and, up to the division by N, math.ifft (sign = 1)
Dft(x, sign) ==
  AsTuple([k \in 1..Len(x) |->
             LET b == DftSum(x, sign, k - 1, 1, Len(x))
             IN <<b[1] \div 1000, b[2] \div 1000>>])

fft(x) == Dft(AsTuple([i \in 1..Len(x) |-> <<x[i], 0>>]), -1)

ifft(X) ==
  LET t == Dft(X, 1)
  IN [i \in 1..Len(X) |-> <<t[i][1] \div Len(X), t[i][2] \div Len(X)>>]

\* a * b / 1000 for two numbers in thousandths
MulMilli(a, b) == a * (b \div 1000) + (a * (b % 1000)) \div 1000

\* math.multiply on complex numbers
ComplexMul(y, e) ==
  <<MulMilli(y[1], e[1]) - MulMilli(y[2], e[2]),
    MulMilli(y[1], e[2]) + MulMilli(y[2], e[1])>>

\* E(f) = 1 / H(f); a magnitude below epsilon = 1e-6 is zero at this resolution,
\* and the denominator is then (1e-6, 0)
Equalizer(H) ==
  LET den == H[1] * H[1] + H[2] * H[2]
      d10 == IF den < 10 THEN 1 ELSE den \div 10
  IN IF den = 0 THEN <<1000000000, 0>>
     ELSE <<(H[1] * 100000) \div d10, (0 - H[2] * 100000) \div d10>>

RECURSIVE NewtonSqrt(_, _)
NewtonSqrt(n, r) ==
  LET q == (r + n \div r) \div 2
  IN IF q >= r THEN r ELSE NewtonSqrt(n, q)

\* toPolar().r of a complex number, to a resolution of 32 thousandths above 2^15
Magnitude(c) ==
  LET big == c[1] > 32000 \/ c[1] < -32000 \/ c[2] > 32000 \/ c[2] < -32000
      f == IF big THEN 32 ELSE 1
      a == c[1] \div f
      b == c[2] \div f
      n == a * a + b * b
  IN IF n = 0 THEN 0 ELSE f * NewtonSqrt(n, n)

VARIABLES
  stage, inputBits, samplesPerSymbol, signalX, taps, signalH,
  signalY, noiseVariance, signalYNoisy,
  spectrumY, spectrumH, spectrumE, complexY, complexH, complexE,
  recoveredSignal, recoveredBits,
  \* slider moves so far
  sliderMoves

srVars == <<stage, inputBits, samplesPerSymbol, signalX, taps, signalH,
            signalY, noiseVariance, signalYNoisy,
            spectrumY, spectrumH, spectrumE, complexY, complexH, complexE,
            recoveredSignal, recoveredBits, sliderMoves>>

\* the state after construction
RecoveryInit ==
  /\ stage = 1
  /\ inputBits = <<"1", "0", "1", "1", "0">>
  /\ samplesPerSymbol = 10
  /\ signalX = <<>>
  /\ taps = <<[delay |-> 0, amp |-> 1000], [delay |-> 5, amp |-> 500],
              [delay |-> 12, amp |-> -300]>>
  /\ signalH = <<>>
  /\ signalY = <<>>
  /\ noiseVariance = 0
  /\ signalYNoisy = <<>>
  /\ spectrumY = <<>>
  /\ spectrumH = <<>>
  /\ spectrumE = <<>>
  /\ complexY = <<>>
  /\ complexH = <<>>
  /\ complexE = <<>>
  /\ recoveredSignal = <<>>
  /\ recoveredBits = <<>>
  /\ sliderMoves = 0

\* Generate BPSK Signal: each bit as +1 / -1 over samplesPerSymbol samples,
\* then 2 * samplesPerSymbol samples of silence
BpskSignal(bits, sps) ==
  [i \in 1..(Len(bits) * sps + 2 * sps) |->
     IF i > Len(bits) * sps THEN 0
     ELSE IF bits[((i - 1) \div sps) + 1] = "1" THEN 1000 ELSE -1000]

generateSignal ==
  /\ stage = 1
  /\ signalX' = BpskSignal(inputBits, samplesPerSymbol)
  /\ stage' = 2
  /\ UNCHANGED <<inputBits, samplesPerSymbol, taps, signalH, signalY, noiseVariance,
                 signalYNoisy, spectrumY, spectrumH, spectrumE, complexY, complexH,
                 complexE, recoveredSignal, recoveredBits, sliderMoves>>

RECURSIVE MaxDelay(_, _)
MaxDelay(ts, i) ==
  IF i > Len(ts) THEN 0
  ELSE LET m == MaxDelay(ts, i + 1)
       IN IF ts[i].delay > m THEN ts[i].delay ELSE m

RECURSIVE TapSum(_, _, _)
TapSum(ts, d, i) ==
  IF i > Len(ts) THEN 0
  ELSE (IF ts[i].delay = d THEN ts[i].amp ELSE 0) + TapSum(ts, d, i + 1)

\* Generate Impulse Response: amplitudes accumulated at their delays
ImpulseResponse(ts) == [k \in 1..(MaxDelay(ts, 1) + 1) |-> TapSum(ts, k - 1, 1)]

generateChannel ==
  /\ stage = 2
  /\ signalH' = ImpulseResponse(taps)
  /\ stage' = 3
  /\ UNCHANGED <<inputBits, samplesPerSymbol, signalX, taps, signalY, noiseVariance,
                 signalYNoisy, spectrumY, spectrumH, spectrumE, complexY, complexH,
                 complexE, recoveredSignal, recoveredBits, sliderMoves>>

\* an inner loop that skips the term with x[0]
RECURSIVE ConvAtSkippingFirst(_, _, _, _)
ConvAtSkippingFirst(x, h, i, j) ==
  IF j >= Len(h) THEN 0
  ELSE (IF i - j > 0 /\ i - j < Len(x) THEN (x[i - j + 1] * h[j + 1]) \div 1000 ELSE 0)
       + ConvAtSkippingFirst(x, h, i, j + 1)

RECURSIVE ConvAt(_, _, _, _)
ConvAt(x, h, i, j) ==
  IF j >= Len(h) THEN 0
  ELSE (IF i - j >= 0 /\ i - j < Len(x) THEN (x[i - j + 1] * h[j + 1]) \div 1000 ELSE 0)
       + ConvAt(x, h, i, j + 1)

\* y[i] = sum over j of x[i - j] * h[j], for i in 0 .. len(x) + len(h) - 2
Convolve(x, h) == [k \in 1..(Len(x) + Len(h) - 1) |-> ConvAt(x, h, k - 1, 0)]

\* z of the Box-Muller transform for sample i of realisation seed, in thousandths
BoxMuller(seed, i) == (((i * seed) % 5) - 2) * 1000

\* Add AWGN Noise: val + z * noiseVariance
AddNoise(y, variance, seed) ==
  [i \in 1..Len(y) |-> y[i] + MulMilli(BoxMuller(seed, i), variance)]

convolveSignals ==
  /\ stage = 3
  /\ signalY' = Convolve(signalX, signalH)
  /\ \E seed \in NoiseSeeds : signalYNoisy' = AddNoise(signalY', noiseVariance, seed)
  /\ stage' = 4
  /\ UNCHANGED <<inputBits, samplesPerSymbol, signalX, taps, signalH, noiseVariance,
                 spectrumY, spectrumH, spectrumE, complexY, complexH,
                 complexE, recoveredSignal, recoveredBits, sliderMoves>>

\* h padded with zeros to the length of the received signal
PadTo(h, n) == [i \in 1..n |-> IF i <= Len(h) THEN h[i] ELSE 0]

performFFT ==
  /\ stage = 4
  /\ LET Y_complex == fft(signalYNoisy)
         H_complex == fft(AsTuple(PadTo(signalH, Len(signalYNoisy))))
     IN /\ complexY' = Y_complex
        /\ complexH' = H_complex
        /\ complexE' = [i \in 1..Len(complexH') |-> Equalizer(complexH'[i])]
        /\ spectrumY' = [i \in 1..Len(complexY') |-> Magnitude(complexY'[i])]
        /\ spectrumH' = [i \in 1..Len(complexH') |-> Magnitude(complexH'[i])]
        /\ spectrumE' = [i \in 1..Len(complexE') |-> Magnitude(complexE'[i])]
  /\ stage' = 5
  /\ UNCHANGED <<inputBits, samplesPerSymbol, signalX, taps, signalH, signalY,
                 noiseVariance, signalYNoisy, recoveredSignal, recoveredBits,
                 sliderMoves>>

\* a decoder that samples at the end of each symbol period
RECURSIVE DecodeBitsAtSymbolEnd(_, _, _, _)
DecodeBitsAtSymbolEnd(x, numBits, sps, i) ==
  IF i >= numBits THEN <<>>
  ELSE LET idx == i * sps + sps
       IN (IF idx < Len(x) THEN <<IF x[idx + 1] > 0 THEN "1" ELSE "0">> ELSE <<>>)
          \o DecodeBitsAtSymbolEnd(x, numBits, sps, i + 1)

\* Decode Bits: sample at Math.floor(i * samplesPerSymbol + samplesPerSymbol / 2)
RECURSIVE DecodeBits(_, _, _, _)
DecodeBits(x, numBits, sps, i) ==
  IF i >= numBits THEN <<>>
  ELSE LET idx == (2 * i * sps + sps) \div 2
       IN (IF idx < Len(x) THEN <<IF x[idx + 1] > 0 THEN "1" ELSE "0">> ELSE <<>>)
          \o DecodeBits(x, numBits, sps, i + 1)

\* Zero Forcing Equalizer: the real part of ifft(Y * E)
Equalize(Y, E) ==
  LET X_est == AsTuple([i \in 1..Len(Y) |-> ComplexMul(Y[i], E[i])])
      x_rec == ifft(X_est)
  IN [i \in 1..Len(Y) |-> x_rec[i][1]]

performEqualization ==
  /\ stage = 5
  /\ recoveredSignal' = Equalize(complexY, complexE)
  /\ recoveredBits' = DecodeBits(recoveredSignal', Len(inputBits), samplesPerSymbol, 0)
  /\ UNCHANGED <<stage, inputBits, samplesPerSymbol, signalX, taps, signalH, signalY,
                 noiseVariance, signalYNoisy, spectrumY, spectrumH, spectrumE,
                 complexY, complexH, complexE, sliderMoves>>

reset ==
  /\ stage' = 1
  /\ signalX' = <<>>
  /\ signalH' = <<>>
  /\ signalY' = <<>>
  /\ signalYNoisy' = <<>>
  /\ spectrumY' = <<>>
  /\ spectrumH' = <<>>
  /\ spectrumE' = <<>>
  /\ recoveredSignal' = <<>>
  /\ recoveredBits' = <<>>
  /\ UNCHANGED <<inputBits, samplesPerSymbol, taps, noiseVariance,
                 complexY, complexH, complexE, sliderMoves>>

\* tap Delay slider (disabled unless stage = 2); onChange fires on a new value
SetTapDelay ==
  /\ stage = 2
  /\ sliderMoves < MaxSliderMoves
  /\ sliderMoves' = sliderMoves + 1
  /\ \E idx \in 1..3 : \E d \in DelayChoices \ {taps[idx].delay} :
       taps' = [taps EXCEPT ![idx].delay = d]
  /\ UNCHANGED <<stage, inputBits, samplesPerSymbol, signalX, signalH, signalY,
                 noiseVariance, signalYNoisy, spectrumY, spectrumH, spectrumE,
                 complexY, complexH, complexE, recoveredSignal, recoveredBits>>

\* tap Amp slider (disabled unless stage = 2); onChange fires on a new value
SetTapAmp ==
  /\ stage = 2
  /\ sliderMoves < MaxSliderMoves
  /\ sliderMoves' = sliderMoves + 1
  /\ \E idx \in 1..3 : \E a \in AmpChoices \ {taps[idx].amp} :
       taps' = [taps EXCEPT ![idx].amp = a]
  /\ UNCHANGED <<stage, inputBits, samplesPerSymbol, signalX, signalH, signalY,
                 noiseVariance, signalYNoisy, spectrumY, spectrumH, spectrumE,
                 complexY, complexH, complexE, recoveredSignal, recoveredBits>>

\* a noise slider that steps back by one stage
StageAfterNoiseChangeOneBack(st) == IF st > 3 THEN st - 1 ELSE st

\* a noise slider that returns to the channel stage
StageAfterNoiseChangeToChannel(st) == IF st > 3 THEN 2 ELSE st

\* the stage after the noise slider moved
StageAfterNoiseChange(st) == IF st > 3 THEN 3 ELSE st

\* Channel Noise slider (rendered once stage >= 3); onChange fires on a new value
SetNoiseVariance ==
  /\ stage >= 3
  /\ sliderMoves < MaxSliderMoves
  /\ sliderMoves' = sliderMoves + 1
  /\ \E v \in NoiseVariances \ {noiseVariance} : noiseVariance' = v
  /\ stage' = StageAfterNoiseChange(stage)
  /\ UNCHANGED <<inputBits, samplesPerSymbol, signalX, taps, signalH, signalY,
                 signalYNoisy, spectrumY, spectrumH, spectrumE,
                 complexY, complexH, complexE, recoveredSignal, recoveredBits>>

(***************************************************************************)
(* calculateErlangB: the Erlang B blocking probability.  Numbers are exact *)
(* fractions <<numerator, denominator>> in lowest terms, denominator > 0.  *)
(***************************************************************************)
\* numbers of channels c explored
ChannelCounts == 0..10
\* traffic loads a explored, in Erlangs: 0, 1/2, 1, 3/2, 2, 5/2, 3, 4, 5
Loads == {<<0, 1>>, <<1, 2>>, <<1, 1>>, <<3, 2>>, <<2, 1>>, <<5, 2>>,
          <<3, 1>>, <<4, 1>>, <<5, 1>>}
\* the arguments (c, a) explored: fractional loads with up to six channels
ErlangInputs ==
  {arg \in ChannelCounts \X Loads : arg[2][2] = 1 \/ arg[1] <= 6}

Abs(x) == IF x < 0 THEN 0 - x ELSE x

RECURSIVE Gcd(_, _)
Gcd(m, n) == IF n = 0 THEN Abs(m) ELSE Gcd(Abs(n), Abs(m) % Abs(n))

\* a fraction in lowest terms, with the sign in the numerator
Reduce(r) ==
  LET g == Gcd(r[1], r[2])
  IN IF g = 0 THEN r
     ELSE IF r[2] < 0 THEN <<(0 - r[1]) \div g, (0 - r[2]) \div g>>
     ELSE <<r[1] \div g, r[2] \div g>>

\* r <= s for fractions r, s >= 0, by comparing their continued fractions
RECURSIVE RatLeq(_, _)
RatLeq(r, s) ==
  IF r[1] \div r[2] # s[1] \div s[2] THEN r[1] \div r[2] < s[1] \div s[2]
  ELSE IF r[1] % r[2] = 0 THEN TRUE
  ELSE IF s[1] % s[2] = 0 THEN FALSE
  ELSE RatLeq(<<s[2], s[1] % s[2]>>, <<r[2], r[1] % r[2]>>)

\* the divisor i + a * b of the loop body, times the denominators of a and b
ErlangDivisor(b, i, a) == i * a[2] * b[2] + a[1] * b[1]

\* a loop body that leaves the load out of the divisor: (a * b) / (i + b)
ErlangStepPlainDivisor(b, i, a) ==
  Reduce(<<a[1] * b[1], a[2] * (i * b[2] + b[1])>>)

\* the loop body: b = (a * b) / (i + a * b)
ErlangStep(b, i, a) == Reduce(<<a[1] * b[1], ErlangDivisor(b, i, a)>>)

\* for (let i = ...; i <= c; i++): the value returned, the number of
\* iterations performed and whether one of them divided by zero
RECURSIVE ErlangLoop(_, _, _, _, _)
ErlangLoop(b, i, c, a, iterations) ==
  IF i > c
  THEN [value |-> b, iterations |-> iterations, dividedByZero |-> FALSE]
  ELSE IF ErlangDivisor(b, i, a) = 0
  THEN [value |-> b, iterations |-> iterations + 1, dividedByZero |-> TRUE]
  ELSE ErlangLoop(ErlangStep(b, i, a), i + 1, c, a, iterations + 1)

\* a function that returns 1 for a load of 0
calculateErlangBOneAtZeroLoad(c, a) ==
  IF a[1] = 0
  THEN [value |-> <<1, 1>>, iterations |-> 0, dividedByZero |-> FALSE]
  ELSE ErlangLoop(<<1, 1>>, 1, c, a, 0)

\* a function whose loop starts at i = 0
calculateErlangBLoopFromZero(c, a) ==
  IF a[1] = 0
  THEN [value |-> <<0, 1>>, iterations |-> 0, dividedByZero |-> FALSE]
  ELSE ErlangLoop(<<1, 1>>, 0, c, a, 0)

calculateErlangB(c, a) ==
  IF a[1] = 0
  THEN [value |-> <<0, 1>>, iterations |-> 0, dividedByZero |-> FALSE]
  ELSE ErlangLoop(<<1, 1>>, 1, c, a, 0)

RECURSIVE Power(_, _)
Power(x, n) == IF n = 0 THEN 1 ELSE x * Power(x, n - 1)

\* c! / i! = (i + 1) * (i + 2) * ... * c
RECURSIVE FactorialRatio(_, _)
FactorialRatio(c, i) == IF i >= c THEN 1 ELSE (i + 1) * FactorialRatio(c, i + 1)

\* the sum over i = from..c of a^i / i!, times c! and the c-th power of the
\* denominator of a
RECURSIVE ClosedFormSum(_, _, _)
ClosedFormSum(c, a, from) ==
  IF from > c THEN 0
  ELSE Power(a[1], from) * Power(a[2], c - from) * FactorialRatio(c, from)
       + ClosedFormSum(c, a, from + 1)

\* B(C, A) = (A^C / C!) / (Sum_{i=0}^C A^i / i!)
ClosedFormErlangB(c, a) == Reduce(<<Power(a[1], c), ClosedFormSum(c, a, 0)>>)

\* products, quotients and sums of fractions, cancelling before multiplying
RatMul(r, s) ==
  LET g1 == Gcd(r[1], s[2])
      g2 == Gcd(s[1], r[2])
  IN Reduce(<<(r[1] \div g1) * (s[1] \div g2), (r[2] \div g2) * (s[2] \div g1)>>)

RatDiv(r, s) == RatMul(r, <<s[2], s[1]>>)

RatAdd(r, s) ==
  LET l == (r[2] \div Gcd(r[2], s[2])) * s[2]
  IN Reduce(<<r[1] * (l \div r[2]) + s[1] * (l \div s[2]), l>>)

\* sum += rs[i] for the elements from index i on; the running sum is a
\* fraction (denominator above 0) before each addition
RECURSIVE RatSumFrom(_, _, _)
RatSumFrom(rs, i, sum) ==
  IF i > Len(rs) \/ sum[2] <= 0 THEN sum
  ELSE RatSumFrom(rs, i + 1, RatAdd(sum, rs[i]))

RatSum(rs, i) == RatSumFrom(rs, i, <<0, 1>>)

\* a loop body dividing by i + 1
StateTermOffByOne(current, i, a) == RatDiv(RatMul(current, a), <<i + 1, 1>>)

\* the loop body: current = (current * a) / i
StateTerm(current, i, a) == RatDiv(RatMul(current, a), <<i, 1>>)

\* for (let i = ...; i <= c; i++) probs[i] = current, with probs[0..i-1] given:
\* the last element of probs is current
RECURSIVE StateTerms(_, _, _, _)
StateTerms(probs, i, c, a) ==
  IF Len(probs) > c THEN probs
  ELSE StateTerms(Append(probs, StateTerm(probs[Len(probs)], i, a)), i + 1, c, a)

\* Pn = (A^n / n!) * P0: the terms from A^0 / 0! = 1 on, divided by their sum
calculateStateProbabilities(c, a) ==
  LET probs == StateTerms(<<<<1, 1>>>>, 1, c, a)
      sum == RatSum(probs, 1)
  IN [i \in 1..Len(probs) |-> RatDiv(probs[i], sum)]

VARIABLES erlangChannels, erlangLoad, blockingProb, stateProbs

erVars == <<erlangChannels, erlangLoad, blockingProb, stateProbs>>

\* a call of the function about to be made, with its arguments
ErlangInit ==
  /\ \E arg \in ErlangInputs : erlangChannels = arg[1] /\ erlangLoad = arg[2]
  /\ blockingProb = <<>>
  /\ stateProbs = <<>>

\* the function is called and returns
ErlangCall ==
  /\ blockingProb = <<>>
  /\ blockingProb' = <<calculateErlangB(erlangChannels, erlangLoad)>>
  /\ UNCHANGED <<erlangChannels, erlangLoad, stateProbs>>

\* calculateStateProbabilities is called and returns
ProbabilitiesCall ==
  /\ stateProbs = <<>>
  /\ stateProbs' = calculateStateProbabilities(erlangChannels, erlangLoad)
  /\ UNCHANGED <<erlangChannels, erlangLoad, blockingProb>>

\* the function has returned
ErlangReturned == blockingProb # <<>>

\* ---------------------------------------------------------------------------
\* Multipath simulator (MultipathSimulator.tsx)
\* ---------------------------------------------------------------------------

MULTIPATH_CANVAS_WIDTH == 800

TX_POS == [x |-> 100, y |-> 100]

MULTIPATH_ROAD_Y == 350

\* scaled speed of light (units per tick)
MULTIPATH_C == 300

\* followed mouse moves of one run
MaxDrags == 1

\* canvas points a dragged building is moved to
DragTargets == {<<105, 125>>, <<200, 200>>}

\* Numbers are binary floating point, <<m, e>> standing for m * 2^e with
\* 2^16 <= m < 2^17 (a significand of 17 bits) and <<0, 0>> for zero; every
\* operation rounds its exact result to the nearest such number, ties to
\* even, as the operations on doubles do with a significand of 53 bits.
SignificandBits == 17

RECURSIVE BitLength(_)
BitLength(n) == IF n = 0 THEN 0 ELSE 1 + BitLength(n \div 2)

\* n * 2^e rounded to the significand; sticky: the exact value lies strictly
\* between n * 2^e and (n + 1) * 2^e
FloatRound(n, sticky, e) ==
  LET k == BitLength(n) - SignificandBits
  IN IF k <= 0 THEN <<n * Pow2(0 - k), e + k>>
     ELSE LET m == n \div Pow2(k)
              rem == n % Pow2(k)
              half == Pow2(k - 1)
              up == rem > half \/ (rem = half /\ (sticky \/ m % 2 = 1))
              r == IF up THEN m + 1 ELSE m
          IN IF r = Pow2(SignificandBits) THEN <<r \div 2, e + k + 1>>
             ELSE <<r, e + k>>

\* binary digits of a square root: p = floor(sqrt(n * 4^s)) and
\* rem = n * 4^s - p^2, extended until p has one digit more than the significand
RECURSIVE SqrtDigits(_, _, _)
SqrtDigits(p, rem, s) ==
  IF p >= Pow2(SignificandBits) THEN <<p, rem, s>>
  ELSE IF 4 * rem >= 4 * p + 1
       THEN SqrtDigits(2 * p + 1, 4 * rem - (4 * p + 1), s + 1)
       ELSE SqrtDigits(2 * p, 4 * rem, s + 1)

\* Math.sqrt of a non-negative integer
FloatSqrt(n) ==
  IF n = 0 THEN <<0, 0>>
  ELSE LET p == NewtonSqrt(n, n)
           d == SqrtDigits(p, n - p * p, 0)
       IN FloatRound(d[1], d[2] # 0, 0 - d[3])

\* x + y
FloatAdd(x, y) ==
  IF x[1] = 0 THEN y
  ELSE IF y[1] = 0 THEN x
  ELSE LET lo == IF x[2] < y[2] THEN x[2] ELSE y[2]
       IN FloatRound(x[1] * Pow2(x[2] - lo) + y[1] * Pow2(y[2] - lo), FALSE, lo)

\* x / d for a positive integer d below 2^13
FloatDiv(x, d) ==
  IF x[1] = 0 THEN <<0, 0>>
  ELSE LET n == x[1] * Pow2(13)
       IN FloatRound(n \div d, n % d # 0, x[2] - 13)

\* x < y, for non-negative x and y
FloatLess(x, y) ==
  /\ y[1] # 0
  /\ \/ x[1] = 0
     \/ x[2] < y[2]
     \/ x[2] = y[2] /\ x[1] < y[1]

\* Math.sqrt(Math.pow(bx - ax, 2) + Math.pow(by - ay, 2))
PointDistance(ax, ay, bx, by) ==
  FloatSqrt((bx - ax) * (bx - ax) + (by - ay) * (by - ay))

VARIABLES rxX, rxIsMoving, buildings, draggedBuildingId, drags

mpVars == <<rxX, rxIsMoving, buildings, draggedBuildingId, drags>>

\* draggedBuildingId 0 stands for null
MultipathInit ==
  /\ rxX = 100
  /\ rxIsMoving = TRUE
  /\ buildings = << [id |-> 1, x |-> 300, y |-> 200],
                    [id |-> 2, x |-> 500, y |-> 150],
                    [id |-> 3, x |-> 650, y |-> 250] >>
  /\ draggedBuildingId = 0
  /\ drags = 0

\* the line-of-sight path
LosPath ==
  LET d0 == PointDistance(TX_POS.x, TX_POS.y, rxX, MULTIPATH_ROAD_Y)
  IN [id |-> 0, type |-> "LOS", delay |-> FloatDiv(d0, MULTIPATH_C)]

\* the path reflected by the building at index idx
NlosPath(idx) ==
  LET b == buildings[idx]
      d_tx_b == PointDistance(TX_POS.x, TX_POS.y, b.x, b.y)
      d_b_rx == PointDistance(b.x, b.y, rxX, MULTIPATH_ROAD_Y)
      di == FloatAdd(d_tx_b, d_b_rx)
  IN [id |-> idx, type |-> "NLOS", delay |-> FloatDiv(di, MULTIPATH_C)]

\* Array.prototype.sort with (a, b) => a.delay - b.delay: stable, ascending
RECURSIVE InsertByDelay(_, _)
InsertByDelay(sorted, p) ==
  IF sorted = <<>> THEN <<p>>
  ELSE IF FloatLess(p.delay, Head(sorted).delay) THEN <<p>> \o sorted
  ELSE <<Head(sorted)>> \o InsertByDelay(Tail(sorted), p)

RECURSIVE SortByDelay(_)
SortByDelay(paths) ==
  IF paths = <<>> THEN <<>>
  ELSE InsertByDelay(SortByDelay(SubSeq(paths, 1, Len(paths) - 1)),
                     paths[Len(paths)])

\* the power-delay profile: the LOS path, then one NLOS path per building,
\* sorted by delay (id 0 is 'LOS', id k is 'NLOS k')
multipathData ==
  SortByDelay(<<LosPath>> \o AsTuple([idx \in 1..Len(buildings) |-> NlosPath(idx)]))

\* one tick of the 50 ms interval
MultipathTick ==
  /\ rxIsMoving
  /\ rxX' = IF rxX + 2 > MULTIPATH_CANVAS_WIDTH - 100 THEN 100 ELSE rxX + 2
  /\ UNCHANGED <<rxIsMoving, buildings, draggedBuildingId, drags>>

\* the play / pause button
MultipathTogglePlay ==
  /\ rxIsMoving' = ~rxIsMoving
  /\ UNCHANGED <<rxX, buildings, draggedBuildingId, drags>>

\* the reset button
MultipathReset ==
  /\ rxX' = 100
  /\ rxIsMoving' = FALSE
  /\ UNCHANGED <<buildings, draggedBuildingId, drags>>

\* the first building whose 50 x 50 box holds the point, 0 if none
ClickedBuilding(x, y) ==
  LET hit == {k \in 1..Len(buildings) :
                /\ x >= buildings[k].x - 25 /\ x <= buildings[k].x + 25
                /\ y >= buildings[k].y - 25 /\ y <= buildings[k].y + 25}
  IN IF hit = {} THEN 0
     ELSE buildings[CHOOSE k \in hit : \A other \in hit : k <= other].id

\* the mouse goes down on the centre of a building
handleMouseDown ==
  /\ \E k \in 1..Len(buildings) :
       draggedBuildingId' = ClickedBuilding(buildings[k].x, buildings[k].y)
  /\ UNCHANGED <<rxX, rxIsMoving, buildings, drags>>

\* the mouse moves over the canvas while a building is held
handleMouseMove ==
  /\ draggedBuildingId # 0
  /\ drags < MaxDrags
  /\ \E target \in DragTargets :
       buildings' = AsTuple([k \in 1..Len(buildings) |->
                       IF buildings[k].id = draggedBuildingId
                       THEN [buildings[k] EXCEPT !.x = target[1], !.y = target[2]]
                       ELSE buildings[k]])
  /\ drags' = drags + 1
  /\ UNCHANGED <<rxX, rxIsMoving, draggedBuildingId>>

\* the mouse is released or leaves the canvas
handleMouseUp ==
  /\ draggedBuildingId' = 0
  /\ UNCHANGED <<rxX, rxIsMoving, buildings, drags>>

\* ---------------------------------------------------------------------------
\* Doppler simulator (DopplerSimulator.tsx)
\* ---------------------------------------------------------------------------
\* Positions and distances are in units of 1/54 pixel, so that one frame at
\* v km/h moves the car by 5v/4 units; frequencies are in tenths of a GHz,
\* cosTheta in ten-thousandths and deltaF in thousandths of a Hz.

PixelUnits == 54

DOPPLER_CANVAS_WIDTH == 800

DOPPLER_ROAD_Y == 320

TOWER_X == DOPPLER_CANVAS_WIDTH \div 2

TOWER_Y == 60

\* values the velocity slider (0..200 km/h) is set to
Velocities == {0, 100, 108}

\* values the frequency slider (1.0..5.0 GHz) is set to
Frequencies == {25, 50}

\* the horizontal distance only
DopplerDistanceAlongRoad(dx, dy) == Abs(dx)

\* Math.sqrt(dx * dx + dy * dy)
DopplerDistance(dx, dy) ==
  LET n == dx * dx + dy * dy
  IN IF n = 0 THEN 0 ELSE NewtonSqrt(n, n)

\* carX - TOWER_X
DopplerDxFromTower(carPos) == carPos - TOWER_X * PixelUnits

\* TOWER_X - carX
DopplerDx(carPos) == TOWER_X * PixelUnits - carPos

\* division rounding towards zero
Quotient(a, b) == IF a < 0 THEN 0 - ((0 - a) \div b) ELSE a \div b

\* undefinedAngle: dx / d was 0 / 0
calculatePhysics(carPos, vKmH, fGHz) ==
  LET dx == DopplerDx(carPos)
      dy == (TOWER_Y - DOPPLER_ROAD_Y) * PixelUnits
      d == DopplerDistance(dx, dy)
      cosTheta == IF d = 0 THEN 0 ELSE Quotient(dx * 10000, d)
  IN [distance |-> d,
      cosTheta |-> cosTheta,
      undefinedAngle |-> d = 0,
      deltaF |-> Quotient(vKmH * fGHz * cosTheta, 108)]

VARIABLES carX, velocityKmH, frequencyGHz, dopplerIsPlaying, metrics

dpVars == <<carX, velocityKmH, frequencyGHz, dopplerIsPlaying, metrics>>

DopplerInit ==
  /\ carX = 0
  /\ velocityKmH = 100
  /\ frequencyGHz = 25
  /\ dopplerIsPlaying = TRUE
  /\ metrics = [distance |-> 0, cosTheta |-> 0, undefinedAngle |-> FALSE, deltaF |-> 0]

\* one animation frame: the car moves if playing, then the metrics are refreshed
animate ==
  LET moveStep == (velocityKmH * 5 * 5 * PixelUnits) \div (18 * 60)
      moved == IF dopplerIsPlaying THEN carX + moveStep ELSE carX
      next == IF dopplerIsPlaying /\ moved > (DOPPLER_CANVAS_WIDTH + 50) * PixelUnits
              THEN (0 - 50) * PixelUnits ELSE moved
  IN /\ carX' = next
     /\ metrics' = calculatePhysics(next, velocityKmH, frequencyGHz)
     /\ UNCHANGED <<velocityKmH, frequencyGHz, dopplerIsPlaying>>

\* the play / pause button
DopplerTogglePlay ==
  /\ dopplerIsPlaying' = ~dopplerIsPlaying
  /\ UNCHANGED <<carX, velocityKmH, frequencyGHz, metrics>>

\* the velocity slider
SetVelocityKmH ==
  /\ \E v \in Velocities \ {velocityKmH} : velocityKmH' = v
  /\ UNCHANGED <<carX, frequencyGHz, dopplerIsPlaying, metrics>>

\* the frequency slider
SetFrequencyGHz ==
  /\ \E f \in Frequencies \ {frequencyGHz} : frequencyGHz' = f
  /\ UNCHANGED <<carX, velocityKmH, dopplerIsPlaying, metrics>>

\* ---------------------------------------------------------------------------
\* Frequency-reuse map (CellularSimulator.tsx)
\* ---------------------------------------------------------------------------

\* the render loop visits the cells (q, r) with -CellRange <= q, r <= CellRange
CellRange == 5

\* values of the two shift sliders
ShiftValues == 0..4

\* the cluster size N
ClusterSize(i, j) ==
  LET val == i * i + i * j + j * j
  IN IF val = 0 THEN 1 ELSE val

\* (((q * i + r * (i + j)) % N) + N) % N
ClusterIdx(q, r, i, j) ==
  LET n == ClusterSize(i, j)
  IN (((q * i + r * (i + j)) % n) + n) % n

\* squared distance of the centre of cell (q, r) from the centre of cell (0, 0),
\* in units of 3 R^2: x = R sqrt(3) (q + r / 2), y = R (3 / 2) r
HexNorm(q, r) == q * q + q * r + r * r

\* the cells in the order the render loop visits them: r outer, q inner
CellCount == (2 * CellRange + 1) * (2 * CellRange + 1)

CellAt(k) ==
  [q |-> ((k - 1) % (2 * CellRange + 1)) - CellRange,
   r |-> ((k - 1) \div (2 * CellRange + 1)) - CellRange]

VARIABLES shiftI, shiftJ, drawn, centers

ceVars == <<shiftI, shiftJ, drawn, centers>>

\* drawn: number of cells the running render has visited
CellularInit ==
  /\ shiftI = 2
  /\ shiftJ = 1
  /\ drawn = 0
  /\ centers = {}

\* one iteration of the render loop
DrawCell ==
  /\ drawn < CellCount
  /\ LET cell == CellAt(drawn + 1)
         isRed == ClusterIdx(cell.q, cell.r, shiftI, shiftJ) = 0
     IN centers' = IF isRed THEN centers \cup {<<cell.q, cell.r>>} ELSE centers
  /\ drawn' = drawn + 1
  /\ UNCHANGED <<shiftI, shiftJ>>

\* the i slider; the render starts again
SetI ==
  /\ \E v \in ShiftValues \ {shiftI} : shiftI' = v
  /\ drawn' = 0
  /\ centers' = {}
  /\ UNCHANGED shiftJ

\* the j slider; the render starts again
SetJ ==
  /\ \E v \in ShiftValues \ {shiftJ} : shiftJ' = v
  /\ drawn' = 0
  /\ centers' = {}
  /\ UNCHANGED shiftI

\* the render loop has visited every cell
RenderDone == drawn = CellCount

\* the three views without controls shared with the others
viewVars == <<mpVars, dpVars, ceVars>>

ViewsConstructed == MultipathInit /\ DopplerInit /\ CellularInit

vars == <<hoVars, trVars, srVars, erVars, viewVars>>

\* the state after construction of the three simulators
HandoffConstructed ==
  /\ ueSpeed = 50
  /\ handoffMode = "hysteresis"
  /\ thresholdMargin = 10
  /\ hysteresisMargin = 6
  /\ environment = "highway"
  /\ uePosition = 0
  /\ isMoving = FALSE
  /\ activeBS = 1
  /\ handoffEvents = <<>>
  /\ isPingPonging = FALSE
  /\ handoffInLastTick = FALSE
  /\ capturedHandoffInLastTick = FALSE
  /\ lastTickHandoff = FALSE
  /\ switchRule = <<>>
  /\ userActions = 0

TrunkConstructed ==
  /\ channels = 10
  /\ arrivalRate = 50
  /\ serviceRate = 10
  /\ isPlaying = FALSE
  /\ currentBusy = 0
  /\ events = <<>>
  /\ stats = [totalCalls |-> 0, droppedCalls |-> 0]

\* the blocking probability the trunking simulator shows when constructed:
\* calculateErlangB(channels, arrivalRate / serviceRate)
ErlangConstructed ==
  /\ erlangChannels = 10
  /\ erlangLoad = <<5, 1>>
  /\ blockingProb = <<calculateErlangB(10, <<5, 1>>)>>
  /\ stateProbs = calculateStateProbabilities(10, <<5, 1>>)

\* a run of the handoff simulator; the other components stay as constructed
HandoffRunInit ==
  ErlangConstructed /\ HandoffInit /\ TrunkConstructed /\ RecoveryInit /\ ViewsConstructed

HandoffRunNext ==
  \/ HandoffTick /\ UNCHANGED <<trVars, srVars, erVars, viewVars>>
  \/ TogglePlay /\ UNCHANGED <<trVars, srVars, erVars, viewVars>>
  \/ HandoffReset /\ UNCHANGED <<trVars, srVars, erVars, viewVars>>
  \/ SetHandoffMode /\ UNCHANGED <<trVars, srVars, erVars, viewVars>>
  \/ SetUeSpeed /\ UNCHANGED <<trVars, srVars, erVars, viewVars>>
  \/ SetThresholdMargin /\ UNCHANGED <<trVars, srVars, erVars, viewVars>>
  \/ SetHysteresisMargin /\ UNCHANGED <<trVars, srVars, erVars, viewVars>>
  \/ SetEnvironment /\ UNCHANGED <<trVars, srVars, erVars, viewVars>>

SpecHandoff == HandoffRunInit /\ [][HandoffRunNext]_vars

\* the same run with the interval timer firing as long as it is installed
SpecHandoffLive ==
  /\ HandoffRunInit
  /\ [][HandoffRunNext]_vars
  /\ WF_vars(HandoffTick /\ UNCHANGED <<trVars, srVars, erVars, viewVars>>)

\* a run of the occupancy simulator
TrunkRunInit ==
  ErlangConstructed /\ TrunkInit /\ HandoffConstructed /\ RecoveryInit /\ ViewsConstructed

TrunkRunNext ==
  \/ TrunkTick /\ UNCHANGED <<hoVars, srVars, erVars, viewVars>>
  \/ TrunkTogglePlay /\ UNCHANGED <<hoVars, srVars, erVars, viewVars>>
  \/ resetSim /\ UNCHANGED <<hoVars, srVars, erVars, viewVars>>
  \/ SetChannels /\ UNCHANGED <<hoVars, srVars, erVars, viewVars>>
  \/ SetArrivalRate /\ UNCHANGED <<hoVars, srVars, erVars, viewVars>>
  \/ SetServiceRate /\ UNCHANGED <<hoVars, srVars, erVars, viewVars>>

SpecTrunk == TrunkRunInit /\ [][TrunkRunNext]_vars

\* a run of the signal-recovery pipeline
RecoveryRunInit ==
  ErlangConstructed /\ RecoveryInit /\ HandoffConstructed /\ TrunkConstructed
  /\ ViewsConstructed

RecoveryRunNext ==
  \/ generateSignal /\ UNCHANGED <<hoVars, trVars, erVars, viewVars>>
  \/ generateChannel /\ UNCHANGED <<hoVars, trVars, erVars, viewVars>>
  \/ convolveSignals /\ UNCHANGED <<hoVars, trVars, erVars, viewVars>>
  \/ performFFT /\ UNCHANGED <<hoVars, trVars, erVars, viewVars>>
  \/ performEqualization /\ UNCHANGED <<hoVars, trVars, erVars, viewVars>>
  \/ reset /\ UNCHANGED <<hoVars, trVars, erVars, viewVars>>
  \/ SetTapDelay /\ UNCHANGED <<hoVars, trVars, erVars, viewVars>>
  \/ SetTapAmp /\ UNCHANGED <<hoVars, trVars, erVars, viewVars>>
  \/ SetNoiseVariance /\ UNCHANGED <<hoVars, trVars, erVars, viewVars>>

SpecRecovery == RecoveryRunInit /\ [][RecoveryRunNext]_vars

\* bit strings fed to the pipeline as inputBits; the first is the one the
\* component is constructed with
BitStrings ==
  {<<"1", "0", "1", "1", "0">>, <<"0", "0", "0", "0", "0">>,
   <<"1", "1", "1", "1", "1">>, <<"0", "1", "0", "0", "1">>}

\* the pipeline as constructed, over a choice of bit strings
RoundTripInit ==
  /\ stage = 1
  /\ inputBits \in BitStrings
  /\ samplesPerSymbol = 10
  /\ signalX = <<>>
  /\ taps = <<[delay |-> 0, amp |-> 1000], [delay |-> 5, amp |-> 500],
              [delay |-> 12, amp |-> -300]>>
  /\ signalH = <<>>
  /\ signalY = <<>>
  /\ noiseVariance = 0
  /\ signalYNoisy = <<>>
  /\ spectrumY = <<>>
  /\ spectrumH = <<>>
  /\ spectrumE = <<>>
  /\ complexY = <<>>
  /\ complexH = <<>>
  /\ complexE = <<>>
  /\ recoveredSignal = <<>>
  /\ recoveredBits = <<>>
  /\ sliderMoves = 0

RoundTripRunInit ==
  ErlangConstructed /\ RoundTripInit /\ HandoffConstructed /\ TrunkConstructed
  /\ ViewsConstructed

\* one pass through the five stages, with the sliders of the stages on the way
RoundTripRunNext ==
  \/ generateSignal /\ UNCHANGED <<hoVars, trVars, erVars, viewVars>>
  \/ generateChannel /\ UNCHANGED <<hoVars, trVars, erVars, viewVars>>
  \/ convolveSignals /\ UNCHANGED <<hoVars, trVars, erVars, viewVars>>
  \/ performFFT /\ UNCHANGED <<hoVars, trVars, erVars, viewVars>>
  \/ performEqualization /\ UNCHANGED <<hoVars, trVars, erVars, viewVars>>
  \/ SetTapDelay /\ UNCHANGED <<hoVars, trVars, erVars, viewVars>>
  \/ SetTapAmp /\ UNCHANGED <<hoVars, trVars, erVars, viewVars>>
  \/ SetNoiseVariance /\ UNCHANGED <<hoVars, trVars, erVars, viewVars>>

SpecRoundTrip == RoundTripRunInit /\ [][RoundTripRunNext]_vars

\* calls of calculateErlangB; the simulators stay as constructed
ErlangRunInit == ErlangInit /\ HandoffConstructed /\ TrunkConstructed /\ RecoveryInit
  /\ ViewsConstructed

ErlangRunNext ==
  \/ ErlangCall /\ UNCHANGED <<hoVars, trVars, srVars, viewVars>>
  \/ ProbabilitiesCall /\ UNCHANGED <<hoVars, trVars, srVars, viewVars>>

SpecErlang == ErlangRunInit /\ [][ErlangRunNext]_vars

\* arguments outside the domain: loads below 0 and channel counts below 1
NegativeLoads == {<<-1, 2>>, <<-1, 1>>, <<-2, 1>>}
InvalidErlangInputs ==
  {arg \in (-1..3) \X (Loads \cup NegativeLoads) : arg[1] <= 0 \/ arg[2][1] < 0}

\* calls of the two functions with such arguments, and the pipeline started
\* on an empty bit string
InvalidInputInit ==
  /\ \E arg \in InvalidErlangInputs : erlangChannels = arg[1] /\ erlangLoad = arg[2]
  /\ blockingProb = <<>>
  /\ stateProbs = <<>>
  /\ stage = 1
  /\ inputBits = <<>>
  /\ samplesPerSymbol = 10
  /\ signalX = <<>>
  /\ taps = <<[delay |-> 0, amp |-> 1000], [delay |-> 5, amp |-> 500],
              [delay |-> 12, amp |-> -300]>>
  /\ signalH = <<>>
  /\ signalY = <<>>
  /\ noiseVariance = 0
  /\ signalYNoisy = <<>>
  /\ spectrumY = <<>>
  /\ spectrumH = <<>>
  /\ spectrumE = <<>>
  /\ complexY = <<>>
  /\ complexH = <<>>
  /\ complexE = <<>>
  /\ recoveredSignal = <<>>
  /\ recoveredBits = <<>>
  /\ sliderMoves = 0

InvalidInputRunInit == InvalidInputInit /\ HandoffConstructed /\ TrunkConstructed
  /\ ViewsConstructed

InvalidInputRunNext ==
  \/ ErlangCall /\ UNCHANGED <<hoVars, trVars, srVars, viewVars>>
  \/ ProbabilitiesCall /\ UNCHANGED <<hoVars, trVars, srVars, viewVars>>
  \/ generateSignal /\ UNCHANGED <<hoVars, trVars, erVars, viewVars>>

SpecInvalidInput == InvalidInputRunInit /\ [][InvalidInputRunNext]_vars

\* the components a run of one of the views leaves as constructed
SimulatorsConstructed ==
  ErlangConstructed /\ HandoffConstructed /\ TrunkConstructed /\ RecoveryInit

\* a run of the multipath simulator
MultipathRunInit ==
  SimulatorsConstructed /\ MultipathInit /\ DopplerInit /\ CellularInit

MultipathRunNext ==
  \/ MultipathTick /\ UNCHANGED <<hoVars, trVars, srVars, erVars, dpVars, ceVars>>
  \/ MultipathTogglePlay /\ UNCHANGED <<hoVars, trVars, srVars, erVars, dpVars, ceVars>>
  \/ MultipathReset /\ UNCHANGED <<hoVars, trVars, srVars, erVars, dpVars, ceVars>>
  \/ handleMouseDown /\ UNCHANGED <<hoVars, trVars, srVars, erVars, dpVars, ceVars>>
  \/ handleMouseMove /\ UNCHANGED <<hoVars, trVars, srVars, erVars, dpVars, ceVars>>
  \/ handleMouseUp /\ UNCHANGED <<hoVars, trVars, srVars, erVars, dpVars, ceVars>>

SpecMultipath == MultipathRunInit /\ [][MultipathRunNext]_vars

\* a run of the Doppler simulator
DopplerRunInit ==
  SimulatorsConstructed /\ DopplerInit /\ MultipathInit /\ CellularInit

DopplerRunNext ==
  \/ animate /\ UNCHANGED <<hoVars, trVars, srVars, erVars, mpVars, ceVars>>
  \/ DopplerTogglePlay /\ UNCHANGED <<hoVars, trVars, srVars, erVars, mpVars, ceVars>>
  \/ SetVelocityKmH /\ UNCHANGED <<hoVars, trVars, srVars, erVars, mpVars, ceVars>>
  \/ SetFrequencyGHz /\ UNCHANGED <<hoVars, trVars, srVars, erVars, mpVars, ceVars>>

SpecDoppler == DopplerRunInit /\ [][DopplerRunNext]_vars

\* renders of the frequency-reuse map
CellularRunInit ==
  SimulatorsConstructed /\ CellularInit /\ MultipathInit /\ DopplerInit

CellularRunNext ==
  \/ DrawCell /\ UNCHANGED <<hoVars, trVars, srVars, erVars, mpVars, dpVars>>
  \/ SetI /\ UNCHANGED <<hoVars, trVars, srVars, erVars, mpVars, dpVars>>
  \/ SetJ /\ UNCHANGED <<hoVars, trVars, srVars, erVars, mpVars, dpVars>>

SpecCellular == CellularRunInit /\ [][CellularRunNext]_vars

(***************************************************************************)
(* Properties of the handoff state machine                                 *)
(***************************************************************************)
\* C2: after a tick the ping-pong flag is true only if that tick and the tick
\* directly before it both produced a handoff, and it is false after every
\* tick that produced no handoff.
PingPongMeansConsecutiveHandoffs ==
  [][HandoffTick =>
       /\ isPingPonging' => lastTickHandoff' /\ lastTickHandoff
       /\ ~lastTickHandoff' => ~isPingPonging']_vars

\* the serving cell's sampled signal in a tick that samples at position next
ServingSignal(next, j1, j2) ==
  IF activeBS = 1 THEN BaseSignal[environment][next + 1] + j1
  ELSE BaseSignal[environment][TOTAL_DIST(environment) - next + 1] + j2

\* the other cell's sampled signal in the same tick
OtherSignal(next, j1, j2) ==
  IF activeBS = 1 THEN BaseSignal[environment][TOTAL_DIST(environment) - next + 1] + j2
  ELSE BaseSignal[environment][next + 1] + j1

\* a hysteresis switch to cell 2 was made in this run with a margin of at
\* least minMargin dB, and the rule in force is still hysteresis with such a margin
SwitchedToTwoByHysteresis(minMargin) ==
  /\ handoffMode = "hysteresis"
  /\ hysteresisMargin >= minMargin
  /\ activeBS = 2
  /\ switchRule # <<>>
  /\ switchRule[1] = "hysteresis"
  /\ switchRule[2] >= minMargin

\* C3 (as stated): in hysteresis mode with hysteresisMargin > 0, once the
\* serving cell has switched to 2 no later tick of the same run switches it
\* back to 1, for every admissible jitter.
HysteresisStability ==
  [][(HandoffTick /\ SwitchedToTwoByHysteresis(1)) => activeBS' = 2]_vars

\* C3 (amended): the same with hysteresisMargin >= 2 dB, a margin above the
\* 1.5 dB peak-to-peak jitter of the two samples.
HysteresisStabilityAboveJitter ==
  [][(HandoffTick /\ SwitchedToTwoByHysteresis(2)) => activeBS' = 2]_vars

\* the run went on under cell 2 after a hysteresis switch with a margin >= 2 dB
MovedOnAfterHysteresisSwitch ==
  /\ SwitchedToTwoByHysteresis(2)
  /\ handoffEvents # <<>>
  /\ uePosition > handoffEvents[Len(handoffEvents)].pos

\* C4: in a tick that neither reaches the far boundary nor drops the call the
\* serving cell switches to the other cell iff (threshold) the serving signal
\* < P_MIN + thresholdMargin or (hysteresis) the other signal > the serving
\* signal + hysteresisMargin; a switch appends exactly one 'handoff' event at
\* the tick's new position; no tick changes the serving cell in another way.
HandoffDecisionRule ==
  [][HandoffTick =>
       LET next == uePosition + ueSpeed \div 5
           Rule(j1, j2) ==
             IF handoffMode = "threshold"
             THEN ServingSignal(next, j1, j2) < P_MIN + 100 * thresholdMargin
             ELSE OtherSignal(next, j1, j2)
                    > ServingSignal(next, j1, j2) + 100 * hysteresisMargin
       IN /\ \A j1 \in Jitter, j2 \in Jitter :
               (/\ next < TOTAL_DIST(environment)
                /\ ServingSignal(next, j1, j2) >= P_MIN
                /\ TickSample(j1, j2)) =>
                 /\ (activeBS' # activeBS) <=> Rule(j1, j2)
                 /\ IF Rule(j1, j2)
                    THEN /\ activeBS' = 3 - activeBS
                         /\ uePosition' = next
                         /\ handoffEvents' =
                              Append(handoffEvents,
                                     [pos |-> uePosition', type |-> "handoff"])
                    ELSE handoffEvents' = handoffEvents
          /\ activeBS' # activeBS =>
               \E j1 \in Jitter, j2 \in Jitter :
                 /\ next < TOTAL_DIST(environment)
                 /\ ServingSignal(next, j1, j2) >= P_MIN
                 /\ Rule(j1, j2)]_vars

\* a tick has just handed the call over to cell 2
HandedOverToTwo ==
  /\ activeBS = 2
  /\ lastTickHandoff
  /\ handoffEvents # <<>>
  /\ handoffEvents[Len(handoffEvents)] = [pos |-> uePosition, type |-> "handoff"]

\* C5: in a tick where the serving cell's sampled signal is below P_MIN the
\* tick records exactly one 'drop' event, stops the movement, leaves position
\* and serving cell unchanged and records no handoff, even when the handoff
\* condition of the mode holds as well.
DropPrecedesHandoff ==
  [][HandoffTick =>
       \A j1 \in Jitter, j2 \in Jitter :
         (/\ uePosition + ueSpeed \div 5 < TOTAL_DIST(environment)
          /\ ServingSignal(uePosition + ueSpeed \div 5, j1, j2) < P_MIN
          /\ TickSample(j1, j2)) =>
           /\ Len(handoffEvents') = Len(handoffEvents) + 1
           /\ SubSeq(handoffEvents', 1, Len(handoffEvents)) = handoffEvents
           /\ handoffEvents'[Len(handoffEvents')].type = "drop"
           /\ isMoving' = FALSE
           /\ uePosition' = uePosition
           /\ activeBS' = activeBS]_vars

\* a tick of a threshold-mode run has dropped the call
DroppedInThresholdMode ==
  /\ handoffMode = "threshold"
  /\ userActions = 0
  /\ ~isMoving
  /\ handoffEvents # <<>>
  /\ handoffEvents[Len(handoffEvents)].type = "drop"

\* a drop has been recorded
Dropped == \E i \in 1..Len(handoffEvents) : handoffEvents[i].type = "drop"

\* C6: after a tick has recorded a drop no action other than reset changes
\* position, serving cell or the event sequence.
DroppedIsTerminal ==
  [][(Dropped /\ ~HandoffReset) => UNCHANGED <<uePosition, activeBS, handoffEvents>>]_vars

ResetClearsEverything ==
  [][reset =>
       /\ stage' = 1
       /\ signalX' = <<>> /\ signalH' = <<>>
       /\ signalY' = <<>> /\ signalYNoisy' = <<>>
       /\ spectrumY' = <<>> /\ spectrumH' = <<>> /\ spectrumE' = <<>>
       /\ complexY' = <<>> /\ complexH' = <<>> /\ complexE' = <<>>
       /\ recoveredSignal' = <<>> /\ recoveredBits' = <<>>]_vars

\* every artifact of the pipeline, in stage order
Artifacts ==
  <<signalX, signalH, signalY, signalYNoisy,
    spectrumY, spectrumH, spectrumE, complexY, complexH, complexE,
    recoveredSignal, recoveredBits>>

OccupancyBound == 0 <= currentBusy /\ currentBusy <= channels

\* every channel is busy and a call has been refused
AllChannelsBusy == currentBusy = channels /\ stats.droppedCalls > 0

\* C10: in a tick with an arrival totalCalls grows by exactly 1; with a free
\* channel at the start of the tick the call is accepted (busy + 1 before the
\* departure phase, 'success' logged, droppedCalls unchanged), otherwise
\* droppedCalls grows by exactly 1, 'drop' is logged and busy is not increased;
\* in a tick without an arrival totalCalls and droppedCalls are unchanged.
ArrivalStep ==
  [][\A randArrival \in RandomDraws, randDeparture \in RandomDraws :
       (TrunkTick /\ TrunkTickWith(randArrival, randDeparture)) =>
         LET arrived == randArrival < arrivalRate * 10
             departureProb == currentBusy * serviceRate * 10
             afterArrival == IF arrived /\ currentBusy < channels
                             THEN currentBusy + 1 ELSE currentBusy
             departs == randDeparture < departureProb /\ afterArrival > 0
         IN /\ arrived =>
                 /\ stats'.totalCalls = stats.totalCalls + 1
                 /\ events' # <<>>
                 /\ IF currentBusy < channels
                    THEN /\ stats'.droppedCalls = stats.droppedCalls
                         /\ events'[1].type = "success"
                    ELSE /\ stats'.droppedCalls = stats.droppedCalls + 1
                         /\ events'[1].type = "drop"
                         /\ currentBusy' <= currentBusy
            /\ ~arrived => stats' = stats
            /\ currentBusy' = IF departs THEN afterArrival - 1 ELSE afterArrival]_vars

\* calls have been accepted and refused
CallsAcceptedAndRefused ==
  /\ stats.droppedCalls > 0
  /\ stats.totalCalls > stats.droppedCalls
  /\ events # <<>>

\* C11: every tick runs the arrival phase and then the departure phase and logs
\* at most one event. An arrival is logged as success or drop, also when a call
\* ends in the same tick, and that departure still decrements the busy count.
\* 'end' is logged only for a departure in a tick without arrival, and no call
\* ends in a tick that started with no busy channel.
TwoPhaseTick ==
  [][TrunkTick =>
       \E randArrival \in RandomDraws, randDeparture \in RandomDraws :
         LET arrived == randArrival < arrivalRate * 10
             accepted == arrived /\ currentBusy < channels
             afterArrival == IF accepted THEN currentBusy + 1 ELSE currentBusy
             departed == currentBusy' < afterArrival
         IN /\ TrunkTickWith(randArrival, randDeparture)
            /\ currentBusy' \in {afterArrival, afterArrival - 1}
            /\ departed <=> randDeparture < currentBusy * serviceRate * 10
            /\ Len(events') <= Len(events) + 1
            /\ arrived =>
                 events' = LogEvent([type |-> IF accepted THEN "success" ELSE "drop"],
                                    events)
            /\ (~arrived /\ departed) => events' = LogEvent([type |-> "end"], events)
            /\ (~arrived /\ ~departed) => events' = events
            /\ currentBusy = 0 => ~departed]_vars

\* a refused call and the end of the only call in progress fell into one tick:
\* the log shows the drop, and the channel is free although no 'end' was logged
ArrivalAndDepartureInOneTick ==
  /\ events = <<[type |-> "drop"], [type |-> "success"]>>
  /\ stats = [totalCalls |-> 2, droppedCalls |-> 1]
  /\ currentBusy = 0

\* C12: the two per-tick probabilities a tick uses, arrivalRate * dt and
\* currentBusy * serviceRate * dt with dt = 0.1, are both at most 1
\* (1000 thousandths) for every accepted parameter setting.
TickProbabilitiesValid ==
  [][TrunkTick =>
       /\ ArrivalProb(arrivalRate) <= 1000
       /\ DepartureProb(currentBusy, serviceRate) <= 1000]_vars

(***************************************************************************)
(* Properties of the handoff simulator: position and termination           *)
(***************************************************************************)

\* C13: the position stays within 0..TOTAL_DIST in every reachable state, and
\* no tick decreases it: a tick that records a drop leaves it unchanged, every
\* other tick advances it by ueSpeed / 3.6 * dt, capped at TOTAL_DIST.
PositionWithinRoute ==
  /\ [](0 <= uePosition /\ uePosition <= TOTAL_DIST(environment))
  /\ [][HandoffTick =>
          LET next == uePosition + ueSpeed \div 5
              dropRecorded ==
                /\ Len(handoffEvents') = Len(handoffEvents) + 1
                /\ handoffEvents'[Len(handoffEvents')].type = "drop"
          IN /\ uePosition' >= uePosition
             /\ IF dropRecorded THEN uePosition' = uePosition
                ELSE uePosition' = IF next >= TOTAL_DIST(environment)
                                   THEN TOTAL_DIST(environment) ELSE next]_vars

\* the UE arrived at cell 2 at a speed changed on the way, and the run stopped
ArrivedAtEndOfRoute ==
  /\ uePosition = TOTAL_DIST(environment)
  /\ ~isMoving
  /\ ueSpeed = 100
  /\ userActions = 1

\* C14: from every state with the run in progress, if the timer keeps firing
\* and the user does nothing further, the run eventually stops, at the end of
\* the route or with a recorded drop (as far as the event log is followed,
\* that is up to MaxEvents events); and every tick that does not stop the run
\* moves the UE strictly forward on the finite route.
RunTerminates ==
  /\ \A k \in 0..MaxUserActions :
       (isMoving /\ userActions = k) ~>
         \/ ~isMoving /\ (uePosition = TOTAL_DIST(environment) \/ Dropped)
         \/ userActions # k
         \/ Len(handoffEvents) >= MaxEvents
  /\ [][(HandoffTick /\ isMoving') => uePosition' > uePosition]_vars

\* an undisturbed run stopped at the end of the route without a drop
RunCompleted ==
  /\ ~isMoving
  /\ uePosition = TOTAL_DIST(environment)
  /\ userActions = 0
  /\ ~Dropped
  /\ Len(handoffEvents) < MaxEvents

(***************************************************************************)
(* Properties of the handoff simulator: ping-pong in threshold mode        *)
(***************************************************************************)

\* the threshold below which the serving cell is handed over in threshold mode
HandoffThreshold == P_MIN + 100 * thresholdMargin

\* at position p both cells are below the threshold whatever the jitter
BothCellsWeak(p) ==
  /\ 0 <= p /\ p <= TOTAL_DIST(environment)
  /\ BaseSignal[environment][p + 1] + 74 < HandoffThreshold
  /\ BaseSignal[environment][TOTAL_DIST(environment) - p + 1] + 74 < HandoffThreshold

\* at the midpoint of the route a cell can be sampled below the threshold
MidpointBelowThreshold ==
  BaseSignal[environment][TOTAL_DIST(environment) \div 2 + 1] - 75 < HandoffThreshold

\* the second tick in a row of an undisturbed threshold-mode run that sampled
\* the UE where both cells are below the threshold
SecondTickInCrossoverRegion ==
  /\ handoffMode = "threshold"
  /\ userActions = 0
  /\ BothCellsWeak(uePosition)
  /\ BothCellsWeak(uePosition - ueSpeed \div 5)

NoZeroBin == \A i \in 1..Len(complexH) : complexH[i] # <<0, 0>>

\* C16: when the pipeline ran with noiseVariance = 0 over a channel whose
\* frequency response has no zero bin, equalization decodes exactly the input
\* bits, for every bit string and tap set.
NoiselessRoundTrip ==
  [][(performEqualization /\ noiseVariance = 0 /\ NoZeroBin)
       => recoveredBits' = inputBits]_vars

\* a bit string other than the default one came back through a channel whose
\* taps were moved
RoundTripDone ==
  /\ stage = 5
  /\ noiseVariance = 0
  /\ NoZeroBin
  /\ recoveredBits = inputBits
  /\ inputBits = <<"0", "1", "0", "0", "1">>
  /\ sliderMoves = 2
  /\ taps[1].amp = 100

\* the terms x[i] * h[k - i] of y[k], summed over the samples i of x from i on
RECURSIVE LinearConvolutionAt(_, _, _, _)
LinearConvolutionAt(x, h, k, i) ==
  IF i >= Len(x) THEN 0
  ELSE (IF 0 <= k - i /\ k - i < Len(h) THEN (x[i + 1] * h[k - i + 1]) \div 1000 ELSE 0)
       + LinearConvolutionAt(x, h, k, i + 1)

\* C17: the convolved signal has length m + n - 1 for x of length m and h of
\* length n, and y[k] is the sum of x[k - j] * h[j] over the j with
\* 0 <= k - j < m.
FullLinearConvolution ==
  [][convolveSignals =>
       /\ Len(signalY') = Len(signalX) + Len(signalH) - 1
       /\ \A k \in 0..(Len(signalX) + Len(signalH) - 2) :
            signalY'[k + 1] = LinearConvolutionAt(signalX, signalH, k, 0)]_vars

\* a waveform was convolved with an impulse response of moved taps
Convolved ==
  /\ stage = 4
  /\ Len(signalY) = Len(signalX) + Len(signalH) - 1
  /\ Len(signalH) = 13
  /\ signalH[4] # 0
  /\ inputBits = <<"1", "1", "1", "1", "1">>

(***************************************************************************)
(* Properties of calculateErlangB                                          *)
(***************************************************************************)

\* the value the call returned
Returned == blockingProb[1]

\* the recursion agrees with the closed form for c >= 1 and a > 0, and
\* erlangB(1, 1) = 1/2
ErlangBEqualsClosedForm ==
  (ErlangReturned /\ erlangChannels >= 1 /\ erlangLoad[1] > 0) =>
    /\ ~Returned.dividedByZero
    /\ Returned.value = ClosedFormErlangB(erlangChannels, erlangLoad)
    /\ (erlangChannels = 1 /\ erlangLoad = <<1, 1>>) => Returned.value = <<1, 2>>

\* C18 (as amended): for channels >= 1 and load > 0 the recursion returns the
\* closed form; erlangB(1, 1) = 0.5, and erlangB(10, 5) = 390625 / 21247437,
\* which is 0.0184 to four decimals (between 0.01835 and 0.01845).
ErlangBValue ==
  /\ ErlangBEqualsClosedForm
  /\ (ErlangReturned /\ erlangChannels = 10 /\ erlangLoad = <<5, 1>>) =>
       /\ RatLeq(<<1835, 100000>>, Returned.value)
       /\ RatLeq(Returned.value, <<1845, 100000>>)

\* erlangB(10, 5) has been computed
KnownValueComputed ==
  /\ ErlangReturned
  /\ erlangChannels = 10
  /\ erlangLoad = <<5, 1>>
  /\ Returned.value = <<390625, 21247437>>

\* C18 (as stated): the recursion returns the closed form, erlangB(1, 1) = 0.5
\* and erlangB(10, 5) is 0.0185 to four decimals (between 0.01845 and 0.01855).
ErlangBValueAsStated ==
  /\ ErlangBEqualsClosedForm
  /\ (ErlangReturned /\ erlangChannels = 10 /\ erlangLoad = <<5, 1>>) =>
       /\ RatLeq(<<1845, 100000>>, Returned.value)
       /\ RatLeq(Returned.value, <<1855, 100000>>)

\* r <= s for two loads
LoadLeq(r, s) == r[1] * s[2] <= s[1] * r[2]

\* C19: for fixed channels the value is non-decreasing in the load over
\* load >= 0, and for a fixed load > 0 it is non-increasing in the channels over
\* channels >= 0.
ErlangBMonotone ==
  ErlangReturned =>
    /\ \A arg \in ErlangInputs :
         (arg[1] = erlangChannels /\ LoadLeq(erlangLoad, arg[2])) =>
           RatLeq(Returned.value, calculateErlangB(arg[1], arg[2]).value)
    /\ \A arg \in ErlangInputs :
         (arg[2] = erlangLoad /\ erlangLoad[1] > 0 /\ arg[1] >= erlangChannels) =>
           RatLeq(calculateErlangB(arg[1], arg[2]).value, Returned.value)

\* a value strictly between those for no load and for more channels has been
\* returned: 1/5 for 2 channels and 1 Erlang
ValueBetweenComputed ==
  /\ ErlangReturned
  /\ erlangChannels = 2
  /\ erlangLoad = <<1, 1>>
  /\ Returned.value = <<1, 5>>
  /\ calculateErlangB(2, <<0, 1>>).value = <<0, 1>>
  /\ calculateErlangB(3, <<1, 1>>).value = <<1, 16>>
  /\ calculateErlangB(2, <<2, 1>>).value = <<2, 5>>

\* C20 (as amended): with channels = 0 the function performs no loop iteration
\* and no division by zero for every load >= 0; it returns 0 for a load of 0
\* and 1, the base case B(0) = 1, for every load > 0.
ZeroChannels ==
  (ErlangReturned /\ erlangChannels = 0) =>
    /\ Returned.iterations = 0
    /\ ~Returned.dividedByZero
    /\ Returned.value = IF erlangLoad[1] = 0 THEN <<0, 1>> ELSE <<1, 1>>

\* the function was called with no channel and a load above 0
ZeroChannelsWithLoad ==
  /\ ErlangReturned
  /\ erlangChannels = 0
  /\ erlangLoad = <<5, 2>>
  /\ Returned.value = <<1, 1>>

\* C20 (as stated): with channels = 0 the function performs no loop iteration
\* and no division by zero, and returns 0, for every load >= 0.
ZeroChannelsYieldZero ==
  (ErlangReturned /\ erlangChannels = 0) =>
    /\ Returned.iterations = 0
    /\ ~Returned.dividedByZero
    /\ Returned.value = <<0, 1>>

\* C21: calculateStateProbabilities returns channels + 1 values, each in
\* [0, 1], that sum to 1; the first is the normalised 1 and each further one
\* is its predecessor times load / i.
StateProbabilitiesNormalised ==
  stateProbs # <<>> =>
    /\ Len(stateProbs) = erlangChannels + 1
    /\ \A i \in 1..Len(stateProbs) :
         /\ stateProbs[i][1] >= 0 /\ stateProbs[i][2] > 0
         /\ stateProbs[i][1] <= stateProbs[i][2]
    /\ RatSum(stateProbs, 1) = <<1, 1>>
    /\ \A i \in 1..erlangChannels :
         RatMul(stateProbs[i + 1], <<i, 1>>) = RatMul(stateProbs[i], erlangLoad)

\* the distribution over 0..3 busy channels at 3/2 Erlang: 16, 24, 18, 9 in 67
DistributionComputed ==
  stateProbs = <<<<16, 67>>, <<24, 67>>, <<18, 67>>, <<9, 67>>>>

(***************************************************************************)
(* Precondition violations                                                 *)
(***************************************************************************)

\* the traffic arguments are outside the domain
InvalidTraffic == erlangChannels <= 0 \/ erlangLoad[1] < 0

\* C22: a call with a negative load or a channel count of zero or less, and
\* the pipeline started on an empty bit string, compute nothing and leave the
\* state as it was.
PreconditionViolationsFailFast ==
  [][/\ (ErlangCall /\ InvalidTraffic) => UNCHANGED blockingProb
     /\ (ProbabilitiesCall /\ InvalidTraffic) => UNCHANGED stateProbs
     /\ (generateSignal /\ inputBits = <<>>) => UNCHANGED <<stage, signalX>>]_vars


\* ---------------------------------------------------------------------------
\* C23  Multipath ordering: for every receiver position and every placement of
\* the reflectors the power-delay profile holds exactly one LOS path and one
\* NLOS path per reflector, is sorted ascending by delay, and its first entry
\* is the LOS path.
\* ---------------------------------------------------------------------------
MultipathOrdering ==
  LET profile == multipathData
  IN /\ Len(profile) = Len(buildings) + 1
     /\ Cardinality({k \in 1..Len(profile) : profile[k].type = "LOS"}) = 1
     /\ \A b \in 1..Len(buildings) :
          Cardinality({k \in 1..Len(profile) :
                         profile[k].type = "NLOS" /\ profile[k].id = b}) = 1
     /\ \A k \in 1..(Len(profile) - 1) :
          ~FloatLess(profile[k + 1].delay, profile[k].delay)
     /\ profile[1].type = "LOS"


\* ---------------------------------------------------------------------------
\* C24  Doppler sign convention: for a velocity above 0 the shift deltaF is
\* positive while the car approaches the tower (dx = towerX - carX > 0),
\* negative while it recedes (dx < 0) and zero under the tower (dx = 0).
\* ---------------------------------------------------------------------------
DopplerSignConvention ==
  LET deltaF == calculatePhysics(carX, velocityKmH, frequencyGHz).deltaF
      dx == TOWER_X * PixelUnits - carX
  IN velocityKmH > 0 =>
       /\ dx > 0 => deltaF > 0
       /\ dx < 0 => deltaF < 0
       /\ dx = 0 => deltaF = 0

\* a frame has shown a negative shift for the car driving away from the tower
RecedingShiftShown ==
  /\ velocityKmH > 0
  /\ carX > TOWER_X * PixelUnits
  /\ metrics = calculatePhysics(carX, velocityKmH, frequencyGHz)
  /\ metrics.deltaF < 0

\* ---------------------------------------------------------------------------
\* C25  Doppler zero-distance guard: the car position stays between -50 and
\* the canvas width + 50, and at every such position the distance that
\* cosTheta = dx / distance divides by is strictly positive.
\* ---------------------------------------------------------------------------
DopplerDistancePositive ==
  LET phys == calculatePhysics(carX, velocityKmH, frequencyGHz)
  IN /\ carX >= (0 - 50) * PixelUnits
     /\ carX <= (DOPPLER_CANVAS_WIDTH + 50) * PixelUnits
     /\ phys.distance > 0
     /\ ~phys.undefinedAngle
     /\ ~metrics.undefinedAngle

\* a frame has evaluated the physics with the car right under the tower
CarUnderTower ==
  /\ carX = TOWER_X * PixelUnits
  /\ metrics.distance = (DOPPLER_ROAD_Y - TOWER_Y) * PixelUnits
  /\ metrics.cosTheta = 0


\* ---------------------------------------------------------------------------
\* C26  Pipeline artifacts match the stage: at stage 3 or below the convolved
\* and noisy signals, the spectra, the recovered waveform and the decoded bits
\* are empty; at stage 4 or below the spectra, the recovered waveform and the
\* decoded bits are empty; decoded bits exist only at stage 5.
\* ---------------------------------------------------------------------------
ArtifactsMatchStage ==
  /\ stage <= 3 =>
       /\ signalY = <<>> /\ signalYNoisy = <<>>
       /\ spectrumY = <<>> /\ spectrumH = <<>> /\ spectrumE = <<>>
       /\ recoveredSignal = <<>> /\ recoveredBits = <<>>
  /\ stage <= 4 =>
       /\ spectrumY = <<>> /\ spectrumH = <<>> /\ spectrumE = <<>>
       /\ recoveredSignal = <<>> /\ recoveredBits = <<>>
  /\ recoveredBits # <<>> => stage = 5


\* ---------------------------------------------------------------------------
\* C27  Handoff reset restores the initial state: after reset the position is
\* 0, the serving cell is 1, the event sequence is empty, the UE is not
\* moving, and the ping-pong flag and the memory of a handoff in the last
\* tick are both false.
\* ---------------------------------------------------------------------------
ResetRestoresInitialState ==
  [][HandoffReset =>
       /\ uePosition' = 0
       /\ activeBS' = 1
       /\ handoffEvents' = <<>>
       /\ ~isMoving'
       /\ ~isPingPonging'
       /\ ~handoffInLastTick']_vars

\* ---------------------------------------------------------------------------
\* C28  Start-of-route consistency: every action that puts the UE at position
\* 0 leaves it served by cell 1, so that no reachable state has the UE at
\* position 0 served by cell 2.
\* ---------------------------------------------------------------------------
StartOfRouteServedByCellOne ==
  uePosition = 0 => activeBS = 1


\* ---------------------------------------------------------------------------
\* C29  Occupancy counters: 0 <= droppedCalls <= totalCalls always; no step
\* other than a reset decreases a counter; a tick changes each counter and
\* the busy count by at most 1, and raises totalCalls - droppedCalls by 1
\* exactly when it accepts an arrival (an arrival with a free channel);
\* reset zeroes the busy count, both counters and the log and stops the
\* simulation.
\* ---------------------------------------------------------------------------
OccupancyCounters ==
  /\ [](0 <= stats.droppedCalls /\ stats.droppedCalls <= stats.totalCalls)
  /\ [][\/ resetSim
        \/ /\ stats'.totalCalls >= stats.totalCalls
           /\ stats'.droppedCalls >= stats.droppedCalls]_vars
  /\ [][TrunkTick =>
          LET offered == stats'.totalCalls - stats.totalCalls
              refused == stats'.droppedCalls - stats.droppedCalls
          IN /\ offered \in {0, 1}
             /\ refused \in {0, 1}
             /\ currentBusy' - currentBusy \in {-1, 0, 1}
             /\ offered - refused =
                  (IF offered = 1 /\ currentBusy < channels THEN 1 ELSE 0)]_vars
  /\ [][resetSim =>
          /\ currentBusy' = 0
          /\ stats' = [totalCalls |-> 0, droppedCalls |-> 0]
          /\ events' = <<>>
          /\ ~isPlaying']_vars

\* two calls were accepted and a third refused with all channels busy
ThirdCallRefused ==
  /\ stats = [totalCalls |-> 3, droppedCalls |-> 1]
  /\ currentBusy = channels
  /\ channels = 2


\* ---------------------------------------------------------------------------
\* C30  Frequency-reuse map: for all shifts (i, j) in 0..4, not both zero, with
\* N = i^2 + i j + j^2, the cell (i, j) has cluster index 0 like the centre
\* cell (0, 0), and no other cell at a squared hex distance strictly between
\* 0 and N has index 0, so D = R sqrt(3 N) is the distance to the nearest
\* co-channel cell.
\* ---------------------------------------------------------------------------
ReuseMapConsistent ==
  (RenderDone /\ <<shiftI, shiftJ>> # <<0, 0>>) =>
    /\ <<0, 0>> \in centers
    /\ <<shiftI, shiftJ>> \in centers
    /\ \A c \in centers :
         ~(0 < HexNorm(c[1], c[2]) /\ HexNorm(c[1], c[2]) < ClusterSize(shiftI, shiftJ))

====
